---------------------------- MODULE Spec2Model ----------------------------
(***************************************************************************)
(* A model of proxy/udp.go of goflyway: the SOCKS5 UDP header codec        *)
(* (parseUDPHeader and the header building of udpBridgeConn.write), the    *)
(* length-prefixed framing of udpBridgeConn.Read / udpBridgeConn.Write,    *)
(* and the relay pool of ProxyClient.handleUDPtoTCP.                       *)
(*                                                                         *)
(* Bytes are the naturals 0..255, a []byte or a string is a sequence of    *)
(* bytes, Go's nil slice and "" are the empty sequence <<>>.  Go indexes   *)
(* from 0: At and Slice keep the source's indices.                         *)
(***************************************************************************)
EXTENDS Integers, Sequences, FiniteSets, TLC

VARIABLES
    codec,      \* the codec harness: a static buffer, the last parse, the last build
    pc,         \* handleUDPtoTCP's position
    i,          \* handleUDPtoTCP's loop index (line 346)
    relay,      \* the shared *net.UDPConn: closed flag and the datagrams written to it
    client,     \* the control connection: closed flag and the replies written to it
    first,      \* the first datagram as read at line 327, and dst as parsed at line 333
    srcs,       \* srcs[k]: the k-th udpBridgeConn (line 343)
    conns,      \* conns[k]: the state of the k-th upstream tunnel (line 344)
    last,       \* the last call of Read / Write / Close on a member, and what it returned
    hist        \* per member: the calls made so far (history, not program state)

vars == <<codec, pc, i, relay, client, first, srcs, conns, last, hist>>

---------------------------------------------------------------------------
(* Bounds of the model *)

\* the fan-out proxy.UDPRelayCoconn (line 342)
MaxConns == 2
\* calls of Read / Write / Close made on the members of one pool
MaxOps == 3
\* bytes fed to one connection by the Write calls of the framing specification
MaxFed == 6
\* longest chunk one Write call of the framing specification is given
MaxChunk == 5
\* bytes fed to the members of one pool, all together, by the Write calls
\* of the interleaving specification
MaxShare == 6

---------------------------------------------------------------------------
(* Go's slices and integers *)

Min(a, b) == IF a < b THEN a ELSE b

\* b[k], 0-based
At(b, k) == b[k + 1]

\* b[lo:hi], 0-based, for 0 <= lo <= hi <= len(b)
Slice(b, lo, hi) == SubSeq(b, lo + 1, hi)

\* A byte slice of len bytes whose bytes after those of data are all 0: a
\* buffer as make gives it, written from its start
Zeros(n) == [len |-> n, data |-> <<>>]

\* b[k] of such a buffer, 0-based
BufAt(b, k) == IF k < Len(b.data) THEN b.data[k + 1] ELSE 0

\* b[lo:hi] of such a buffer, as a byte string
BufSlice(b, lo, hi) == [k \in 1..(hi - lo) |-> BufAt(b, lo + k - 1)]

\* copy(dst[off:], src), for off <= len(dst): as many bytes as fit, the rest
\* of dst untouched
Copy(dst, off, src) ==
    LET m == Min(Len(src), dst.len - off)
        used == IF m > 0 /\ off + m > Len(dst.data) THEN off + m ELSE Len(dst.data)
    IN  [dst EXCEPT !.data =
            [k \in 1..used |->
                IF k > off /\ k - off <= m THEN src[k - off] ELSE BufAt(dst, k - 1)]]

\* b[lo:hi] of such a buffer, as a buffer
SubBuf(b, lo, hi) ==
    [len |-> hi - lo,
     data |-> SubSeq(b.data, Min(lo, Len(b.data)) + 1, Min(hi, Len(b.data)))]

\* copy(dst[off:], src) for a source that is such a buffer itself
CopyBuf(dst, off, src) ==
    LET m == Min(src.len, dst.len - off)
        top == off + Min(m, Len(src.data))
        used == IF top > Len(dst.data) THEN top ELSE Len(dst.data)
    IN  [dst EXCEPT !.data =
            [k \in 1..used |->
                IF k > off /\ k - off <= m THEN BufAt(src, k - off - 1) ELSE BufAt(dst, k - 1)]]

\* binary.BigEndian.Uint16([]byte{hi, lo})
Uint16(hi, lo) == hi * 256 + lo

\* binary.BigEndian.PutUint16(b[off:], uint16(v)), for off + 2 <= len(b)
PutUint16(b, off, v) ==
    Copy(b, off, << (v % 65536) \div 256, v % 256 >>)

\* a byte string as a buffer of its own length
AsBuf(t) == [len |-> Len(t), data |-> t]

---------------------------------------------------------------------------
(* Constants of the package that udp.go uses *)

socksVersion5 == 5
socksAddrIPv4 == 1
socksAddrDomain == 3
socksAddrIPv6 == 4
IPv4len == 4
IPv6len == 16
udpHeaderIPv4 == <<0, 0, 0, 1, 0, 0, 0, 0, 0, 0>>
udpHeaderIPv6 == <<0, 0, 0, 4, 0, 0, 0, 0, 0, 0, 0, 0, 0, 0, 0, 0, 0, 0, 0, 0, 0, 0>>
okSOCKS == <<5, 0, 0, 1, 0, 0, 0, 0, 0, 0>>

\* Read's expectedMaxPacketSize
expectedMaxPacketSize == 2050
\* the buffer of the first datagram, make([]byte, 2048)
firstBufSize == 2048

---------------------------------------------------------------------------
(* parseUDPHeader, for conn == nil and a static buffer (both calls of it) *)

\* a nil *uAddr
NilAddr == [nil |-> TRUE]

uAddr(ip, host, port, size) ==
    [nil |-> FALSE, ip |-> ip, host |-> host, port |-> port, size |-> size]

\* the three ways a call ends: a return with err == nil, a return with an
\* error, a run-time panic (index or slice bounds out of range)
Returned(method, addr) == [kind |-> "ok", method |-> method, addr |-> addr, err |-> "nil"]
Failed(err) == [kind |-> "err", method |-> 0, addr |-> NilAddr, err |-> err]
Panicked == [kind |-> "panic", method |-> 0, addr |-> NilAddr, err |-> "panic"]

\* lines 73-81, for len(buf) >= 2: "ok" or the error
VersionCheckNoMethod(buf, omitCheck) ==
    IF omitCheck THEN "ok"
    ELSE IF At(buf, 0) # socksVersion5 THEN "expect SOCKS5"
    ELSE "ok"
VersionCheck(buf, omitCheck) ==
    IF omitCheck THEN "ok"
    ELSE IF At(buf, 0) # socksVersion5 THEN "expect SOCKS5"
    ELSE IF At(buf, 1) # 1 /\ At(buf, 1) # 3 THEN "invalid method"
    ELSE "ok"

\* lines 84-93, for a known address type: addr.size
HeaderSizeNoPort(buf) ==
    IF At(buf, 3) = socksAddrIPv4 THEN 3 + 1 + IPv4len
    ELSE IF At(buf, 3) = socksAddrIPv6 THEN 3 + 1 + IPv6len
    ELSE 3 + 1 + 1 + At(buf, 4)
HeaderSize(buf) ==
    IF At(buf, 3) = socksAddrIPv4 THEN 3 + 1 + IPv4len + 2
    ELSE IF At(buf, 3) = socksAddrIPv6 THEN 3 + 1 + IPv6len + 2
    ELSE 3 + 1 + 1 + At(buf, 4) + 2

\* lines 105-115: the address of a buffer that holds the whole header
HeaderAddr(buf, size) ==
    LET rawaddr == Slice(buf, 3, size - 2)
        port == Uint16(At(buf, size - 2), At(buf, size - 1))
    IN  IF At(buf, 3) \in {socksAddrIPv4, socksAddrIPv6}
        THEN uAddr(Slice(rawaddr, 1, Len(rawaddr)), <<>>, port, size)
        ELSE uAddr(<<>>, Slice(rawaddr, 2, Len(rawaddr)), port, size)

parseUDPHeader(buf, omitCheck) ==
    IF ~omitCheck /\ Len(buf) < 1 THEN Panicked                       \* buf[0]
    ELSE IF ~omitCheck /\ At(buf, 0) # socksVersion5 THEN Failed("expect SOCKS5")
    ELSE IF ~omitCheck /\ Len(buf) < 2 THEN Panicked                  \* buf[1]
    ELSE IF VersionCheck(buf, omitCheck) # "ok" THEN Failed(VersionCheck(buf, omitCheck))
    ELSE IF Len(buf) < 4 THEN Panicked                                \* buf[3]
    ELSE IF At(buf, 3) \notin {socksAddrIPv4, socksAddrIPv6, socksAddrDomain}
         THEN Failed("invalid address type")
    ELSE IF At(buf, 3) = socksAddrDomain /\ Len(buf) < 5 THEN Panicked \* buf[4]
    ELSE IF Len(buf) < HeaderSize(buf) THEN Failed("EOF")
    ELSE Returned(At(buf, 1), HeaderAddr(buf, HeaderSize(buf)))

---------------------------------------------------------------------------
(* The header building of udpBridgeConn.write, lines 189-220: the slice    *)
(* handed to WriteTo, or a panic                                           *)

Built(data, ln) == [panic |-> FALSE, data |-> data, ln |-> ln]
BuildPanicked == [panic |-> TRUE, data |-> <<>>, ln |-> 0]

\* lines 192-201: the domain branch
BuildDomain(dst, b) ==
    LET xbuf0 == Zeros(Len(b) + 256)
        hl == Len(dst.host)
        ln == 5 + hl + 2
        xbuf1 == Copy(Copy(Copy(xbuf0, 3, <<3>>), 4, <<hl % 256>>), 5, dst.host)
    IN  IF 5 + hl + 2 > xbuf0.len THEN BuildPanicked    \* xbuf[5+hl:], PutUint16
        ELSE LET xbuf2 == Copy(PutUint16(xbuf1, 5 + hl, dst.port), ln, b)
             IN  IF ln + Len(b) > xbuf0.len THEN BuildPanicked  \* xbuf[:ln+len(b)]
                 ELSE Built(BufSlice(xbuf2, 0, ln + Len(b)), ln)

\* lines 203-218: the IPv4 and the IPv6 branch
BuildIP(dst, b, template, portAt) ==
    LET xbuf0 == Zeros(Len(b) + 256)
        ln == Len(template)
        xbuf1 == Copy(Copy(xbuf0, 0, template), 4, Slice(dst.ip, 0, Min(Len(dst.ip), portAt - 4)))
        xbuf2 == Copy(PutUint16(xbuf1, portAt, dst.port), ln, b)
    IN  Built(BufSlice(xbuf2, 0, ln + Len(b)), ln)

BuildDatagram(dst, b) ==
    IF dst.host # <<>> THEN BuildDomain(dst, b)
    ELSE IF Len(dst.ip) = IPv4len THEN BuildIP(dst, b, udpHeaderIPv4, 8)
    ELSE BuildIP(dst, b, udpHeaderIPv6, 20)

---------------------------------------------------------------------------
(* udpBridgeConn *)

\* c.initBuf: nil, or a slice (possibly of length 0)
NilBuf == [nil |-> TRUE, data |-> <<>>]
SomeBuf(data) == [nil |-> FALSE, data |-> data]

\* the composite literal of lines 347-353, and line 357 for member 0
NewConn(src, dst, initBuf) ==
    [udpSrc |-> src, initBuf |-> initBuf,
     waitingMore |-> [buf |-> <<>>, remain |-> 0],
     incompleteLen |-> FALSE, socks |-> TRUE, closed |-> FALSE, dst |-> dst]

\* a connection in raw mode: socks is a field of the struct, false in the
\* connections that the other end of the tunnel builds
RawConn(src, dst) == [NewConn(src, dst, NilBuf) EXCEPT !.socks = FALSE]

\* what a call of write or Write did: the connection after it, the results
\* n and err, the datagrams handed to the socket that it accepted (out), the
\* payloads handed to write (emits), whether the call panicked
Ret(c, n, err, out, emits) ==
    [c |-> c, n |-> n, err |-> err, out |-> out, emits |-> emits, panic |-> FALSE]
Crash(c, out, emits) ==
    [c |-> c, n |-> 0, err |-> "panic", out |-> out, emits |-> emits, panic |-> TRUE]

\* r, after the calls that gave out0 and emits0
After(out0, emits0, r) ==
    [r EXCEPT !.out = out0 \o r.out, !.emits = emits0 \o r.emits]

\* udpBridgeConn.write, lines 174-225; sockOk: the socket accepts the datagram
write(c, b, sockOk) ==
    IF ~c.socks
    THEN IF sockOk
         THEN Ret(c, Len(b) + 2, "nil", <<[to |-> "connected", data |-> b]>>, <<b>>)
         ELSE Ret(c, 0, "write failed", <<>>, <<b>>)
    ELSE IF c.udpSrc = "nil" THEN Ret(c, 0, "nil", <<>>, <<b>>)
    ELSE LET d == BuildDatagram(c.dst, b)
         IN  IF d.panic THEN Crash(c, <<>>, <<b>>)
             ELSE IF sockOk
             THEN Ret(c, Len(d.data) + 2 - d.ln, "nil",
                      <<[to |-> c.udpSrc, data |-> d.data]>>, <<b>>)
             ELSE Ret(c, 0, "write failed", <<>>, <<b>>)

\* the deferred function of lines 230-237; b is the variable b as it is when
\* the function returns
Deferred(r, b) ==
    IF r.err = "nil" /\ ~r.panic THEN [r EXCEPT !.n = Len(b)] ELSE r

\* What lines 246-307 of Write decide before they call write, for len(b) > 0:
\*   Store: no frame is complete, the bytes are kept, Write returns n;
\*   Emit: write(payload) is called and its result returned;
\*   EmitThen: write(payload) is called and, if it succeeds, the bytes of
\*     rest are processed: by the same call with b reassigned (line 275,
\*     reassigned), or by the recursive call of line 307.
Store(c, n) ==
    [kind |-> "store", c |-> c, n |-> n, payload |-> <<>>, rest |-> <<>>, reassigned |-> FALSE]
Emit(c, payload) ==
    [kind |-> "emit", c |-> c, n |-> 0, payload |-> payload, rest |-> <<>>, reassigned |-> FALSE]
EmitThen(c, payload, rest, reassigned) ==
    [kind |-> "emitThen", c |-> c, n |-> 0, payload |-> payload, rest |-> rest,
     reassigned |-> reassigned]

\* lines 289-307 (label TEST); buf: the bytes of b after the length
TestDropSurplus(c, b, ln, buf) ==
    IF Len(buf) < ln
    THEN Store([c EXCEPT !.waitingMore = [buf |-> buf, remain |-> ln - Len(buf)]], Len(b))
    ELSE Emit(c, Slice(buf, 0, ln))
TestKeepsLength(c, b, ln, buf) ==
    IF Len(buf) < ln
    THEN Store([c EXCEPT !.waitingMore = [buf |-> buf, remain |-> ln]], Len(b))
    ELSE IF Len(buf) = ln THEN Emit(c, buf)
    ELSE EmitThen(c, Slice(buf, 0, ln), Slice(buf, ln, Len(buf)), FALSE)
Test(c, b, ln, buf) ==
    IF Len(buf) < ln
    THEN Store([c EXCEPT !.waitingMore = [buf |-> buf, remain |-> ln - Len(buf)]], Len(b))
    ELSE IF Len(buf) = ln THEN Emit(c, buf)
    ELSE EmitThen(c, Slice(buf, 0, ln), Slice(buf, ln, Len(buf)), FALSE)

\* lines 279-287, then TEST
Parse(c, b) ==
    IF Len(b) = 1
    THEN Store([c EXCEPT !.waitingMore.buf = b, !.incompleteLen = TRUE], 1)
    ELSE Test(c, b, Uint16(At(b, 0), At(b, 1)), Slice(b, 2, Len(b)))

\* lines 255-277, for c.waitingMore.remain > 0
WaitingNoAppend(c, b) ==
    LET remain == c.waitingMore.remain
        c1 == [c EXCEPT !.waitingMore.remain = remain - Len(b)]
    IN  IF c1.waitingMore.remain = 0 THEN Emit(c1, c.waitingMore.buf \o b)
        ELSE IF c1.waitingMore.remain > 0
        THEN Store([c1 EXCEPT !.waitingMore.buf = b], Len(b))
        ELSE EmitThen(c1, c.waitingMore.buf \o Slice(b, 0, remain),
                      Slice(b, remain, Len(b)), TRUE)
Waiting(c, b) ==
    LET remain == c.waitingMore.remain
        c1 == [c EXCEPT !.waitingMore.remain = remain - Len(b)]
    IN  IF c1.waitingMore.remain = 0 THEN Emit(c1, c.waitingMore.buf \o b)
        ELSE IF c1.waitingMore.remain > 0
        THEN Store([c1 EXCEPT !.waitingMore.buf = c.waitingMore.buf \o b], Len(b))
        ELSE EmitThen(c1, c.waitingMore.buf \o Slice(b, 0, remain),
                      Slice(b, remain, Len(b)), TRUE)

\* lines 246-307, for len(b) > 0
Segment(c, b) ==
    IF c.incompleteLen
    THEN Test([c EXCEPT !.incompleteLen = FALSE], b,
              Uint16(At(c.waitingMore.buf, 0), At(b, 0)), Slice(b, 1, Len(b)))
    ELSE IF c.waitingMore.remain > 0 THEN Waiting(c, b)
    ELSE Parse(c, b)

\* udpBridgeConn.Write, lines 227-308; okCount: how many WriteTo calls the
\* socket accepts before it fails one.  After line 275 the call goes on at
\* line 279 with b reassigned, c.incompleteLen false and
\* c.waitingMore.remain < 0, which is what a call of Write on the rest does;
\* the deferred function then reads the reassigned b.
RECURSIVE Write(_, _, _)
Write(c, b, okCount) ==
    IF Len(b) = 0 THEN Deferred(Ret(c, 0, "nil", <<>>, <<>>), b)
    ELSE LET s == Segment(c, b)
         IN  IF s.kind = "store" THEN Deferred(Ret(s.c, s.n, "nil", <<>>, <<>>), b)
             ELSE LET w == write(s.c, s.payload, okCount > 0)
                  IN  IF s.kind = "emit" \/ w.err # "nil" THEN Deferred(w, b)
                      ELSE Deferred(After(w.out, w.emits, Write(w.c, s.rest, okCount - 1)),
                                    IF s.reassigned THEN s.rest ELSE b)

\* udpBridgeConn.Close, lines 310-313: the connection after it (the shared
\* socket is closed by the action that calls it)
CloseKeepsOpen(c) == c
Close(c) == [c EXCEPT !.closed = TRUE]

\* what a call of Read did: the connection after it, the results n and err,
\* the caller's buffer after it, whether the socket was read, a panic
ReadRet(c, n, err, b, sock) ==
    [c |-> c, n |-> n, err |-> err, b |-> b, sock |-> sock, panic |-> FALSE]
ReadCrash(c, sock) ==
    [c |-> c, n |-> 0, err |-> "panic", b |-> Zeros(0), sock |-> sock, panic |-> TRUE]

\* a result of c.UDPConn.ReadFrom: a datagram and its sender, or an error
\* (n == 0 and a nil address); a datagram is the bytes of data and then pad
\* bytes that are 0
Received(data, addr) == [ok |-> TRUE, data |-> data, pad |-> 0, addr |-> addr]
ReceivedPadded(data, pad, addr) == [ok |-> TRUE, data |-> data, pad |-> pad, addr |-> addr]
ReadFailed == [ok |-> FALSE, data |-> <<>>, pad |-> 0, addr |-> "nil"]

\* line 140: the guard of the panic
UndersizedForPayload(lenb) == lenb < expectedMaxPacketSize - 2
Undersized(lenb) == lenb < expectedMaxPacketSize

\* lines 144-149 and 168-171: the seed is pending
ReadSeedKeepsSeed(c, b) ==
    LET n == Len(c.initBuf.data)
    IN  ReadRet(c, n + 2, "nil", PutUint16(Copy(b, 2, c.initBuf.data), 0, n), FALSE)
ReadSeed(c, b) ==
    LET n == Len(c.initBuf.data)
    IN  ReadRet([c EXCEPT !.initBuf = NilBuf], n + 2, "nil",
                PutUint16(Copy(b, 2, c.initBuf.data), 0, n), FALSE)

\* lines 156-171, for a datagram of n bytes in b
ReadStripKeepsCount(c, b, n) ==
    IF c.socks
    THEN LET p == parseUDPHeader(BufSlice(b, 0, n), TRUE)
         IN  IF p.kind = "panic" THEN ReadCrash(c, TRUE)
             ELSE IF p.kind = "err" THEN ReadRet(c, 0, p.err, b, TRUE)
             ELSE ReadRet(c, n + 2, "nil",
                          PutUint16(CopyBuf(b, 2, SubBuf(b, p.addr.size, n)), 0, n), TRUE)
    ELSE ReadRet(c, n + 2, "nil", PutUint16(CopyBuf(b, 2, SubBuf(b, 0, n)), 0, n), TRUE)
ReadStrip(c, b, n) ==
    IF c.socks
    THEN LET p == parseUDPHeader(BufSlice(b, 0, n), TRUE)
         IN  IF p.kind = "panic" THEN ReadCrash(c, TRUE)
             ELSE IF p.kind = "err" THEN ReadRet(c, 0, p.err, b, TRUE)
             ELSE ReadRet(c, n - p.addr.size + 2, "nil",
                          PutUint16(CopyBuf(b, 2, SubBuf(b, p.addr.size, n)),
                                    0, n - p.addr.size), TRUE)
    ELSE ReadRet(c, n + 2, "nil", PutUint16(CopyBuf(b, 2, SubBuf(b, 0, n)), 0, n), TRUE)

\* udpBridgeConn.Read, lines 138-172, on a zeroed buffer of lenb bytes; rf is
\* what ReadFrom returns if it is called
Read(c, lenb, rf) ==
    IF Undersized(lenb) THEN ReadCrash(c, FALSE)
    ELSE IF ~c.initBuf.nil THEN ReadSeed(c, Zeros(lenb))
    ELSE LET n == Min(Len(rf.data) + rf.pad, lenb)
             b == Copy(Zeros(lenb), 0, Slice(rf.data, 0, Min(Len(rf.data), lenb)))
             c1 == [c EXCEPT !.udpSrc = rf.addr]
         IN  IF ~rf.ok THEN ReadRet(c1, 0, "read failed", b, TRUE)
             ELSE ReadStrip(c1, b, n)

---------------------------------------------------------------------------
(* What the environment supplies: datagrams in the wire format of a SOCKS5 *)
(* UDP request, senders, chunks of the tunnel stream                       *)

Fill(n, v) == [k \in 1..n |-> v]
Port2(port) == <<port \div 256, port % 256>>
Hdr4(v, ip, port) == v \o <<0, socksAddrIPv4>> \o ip \o Port2(port)
Hdr6(v, ip, port) == v \o <<0, socksAddrIPv6>> \o ip \o Port2(port)
HdrDomain(v, host, port) ==
    v \o <<0, socksAddrDomain, Len(host)>> \o host \o Port2(port)

Ports == {0, 53, 256, 65535}
IP4 == <<1, 2, 3, 4>>
IP6 == <<32, 1, 13, 184>> \o Fill(11, 0) \o <<1>>
Hosts == {Fill(n, 97) : n \in {0, 1, 3, 249, 250, 255}}
Senders == {"peerA", "peerB"}

\* the static buffers the codec is tried on
CodecHeads == {<<5, 1>>, <<5, 3>>, <<5, 2>>, <<4, 1>>, <<0, 0>>}
CodecBuffers ==
    {Hdr4(v, IP4, p) \o t : v \in CodecHeads, p \in Ports, t \in {<<>>, <<80>>}}
    \cup {Hdr6(v, IP6, p) : v \in CodecHeads, p \in {53, 65535}}
    \cup {HdrDomain(v, h, 53) \o t : v \in CodecHeads, h \in Hosts, t \in {<<>>, <<80, 81>>}}
    \cup {v \o <<0, a>> \o IP4 \o Port2(53) : v \in CodecHeads, a \in {0, 2, 5, 255}}
    \cup {Slice(Hdr4(v, IP4, 53), 0, n) : v \in CodecHeads, n \in {0, 1, 3, 4, 9}}
    \cup {Slice(HdrDomain(v, Fill(3, 97), 53), 0, n) : v \in CodecHeads, n \in {4, 5, 9}}

\* payloads the codec harness hands to the header building
CodecPayloads == {<<>>, <<80>>, Fill(6, 80)}

\* the first datagram of a session
FirstDatagrams ==
    { Hdr4(<<0, 0>>, IP4, 53) \o <<80, 73>>,
      Hdr4(<<0, 0>>, IP4, 53),
      HdrDomain(<<0, 0>>, Fill(3, 97), 53) \o <<80>>,
      <<0, 0, 0, 9, 1, 2, 3, 4, 0, 53>>,
      <<0, 0, 0, 1, 1, 2>>,
      <<>> }

\* the later datagrams of a session
Datagrams ==
    { Hdr4(<<0, 0>>, IP4, 53) \o <<81, 82>>,
      Hdr6(<<0, 0>>, IP6, 65535) \o <<83>>,
      HdrDomain(<<0, 0>>, Fill(2, 98), 256),
      <<0, 0, 0, 9, 1, 2, 3, 4, 0, 53>> }

\* the lengths of the buffers Read is called with
ReadBufLens == {expectedMaxPacketSize - 1, expectedMaxPacketSize}

\* the chunks Write is called with in the pool
PoolChunks == {<<0, 1, 7>>, <<0, 2, 7>>}

\* the chunks Write is called with in the framing specification: every
\* byte string of at most MaxChunk bytes over FrameBytes (frames of 0, 1 and
\* 3 bytes)
FrameBytes == {0, 1, 3}
RECURSIVE Strings(_)
Strings(n) ==
    IF n = 0 THEN {<<>>}
    ELSE LET shorter == Strings(n - 1)
         IN  shorter \cup {Append(t, x) : t \in {u \in shorter : Len(u) = n - 1}, x \in FrameBytes}
Chunks == Strings(MaxChunk)

---------------------------------------------------------------------------
(* The state *)

maxConns == MaxConns
Members == 0 .. (maxConns - 1)

\* a nil *udpBridgeConn
NilConn == [nil |-> TRUE]

NoResult == [kind |-> "none", method |-> 0, addr |-> NilAddr, err |-> "none"]
CodecIdle ==
    [phase |-> "idle", buf |-> <<>>, omit |-> FALSE, res |-> NoResult,
     dst |-> NilAddr, b |-> <<>>, d |-> BuildPanicked,
     w |-> Ret(NilConn, 0, "none", <<>>, <<>>)]

NoCall ==
    [op |-> "none", k |-> 0, pre |-> NilConn, lenb |-> 0, rf |-> ReadFailed,
     chunk |-> <<>>, n |-> 0, err |-> "none", buf |-> <<>>, sock |-> FALSE,
     out |-> <<>>, emits |-> <<>>, panic |-> FALSE]

NoHist ==
    [ops |-> 0,
     dials |-> [k \in Members |-> 0],
     reads |-> [k \in Members |-> 0],
     sockReads |-> [k \in Members |-> 0],
     fed |-> [k \in Members |-> <<>>],
     emits |-> [k \in Members |-> <<>>],
     clean |-> [k \in Members |-> TRUE]]

PoolInit ==
    /\ pc = "start"
    /\ i = 0
    /\ relay = [closed |-> FALSE, port |-> 4660, out |-> <<>>]
    /\ client = [closed |-> FALSE, out |-> <<>>]
    /\ first = [n |-> 0, buf |-> <<>>, src |-> "nil", dst |-> NilAddr]
    /\ srcs = [k \in Members |-> NilConn]
    /\ conns = [k \in Members |-> "nil"]
    /\ last = NoCall
    /\ hist = NoHist

Init == codec = CodecIdle /\ PoolInit

poolVars == <<pc, i, relay, client, first, srcs, conns, last, hist>>

---------------------------------------------------------------------------
(* ProxyClient.handleUDPtoTCP, lines 315-383 *)

\* the deferred relay.Close() and client.Close() of lines 316-317
ReleaseSocketOnly(to) ==
    /\ pc' = to
    /\ relay' = [relay EXCEPT !.closed = TRUE]
    /\ client' = client
Release(to) ==
    /\ pc' = to
    /\ relay' = [relay EXCEPT !.closed = TRUE]
    /\ client' = [client EXCEPT !.closed = TRUE]

\* lines 320-324
SendReply ==
    /\ pc = "start"
    /\ client' = [client EXCEPT !.out = Append(@, PutUint16(AsBuf(okSOCKS), 8, relay.port).data)]
    /\ pc' = "await"
    /\ UNCHANGED <<codec, i, relay, first, srcs, conns, last, hist>>

\* lines 326-331
ReadFirst(rf) ==
    /\ pc = "await"
    /\ IF rf.ok
       THEN /\ first' = [n |-> Min(Len(rf.data), firstBufSize),
                         buf |-> Slice(rf.data, 0, Min(Len(rf.data), firstBufSize)),
                         src |-> rf.addr, dst |-> NilAddr]
            /\ pc' = "parse"
            /\ UNCHANGED <<relay, client>>
       ELSE /\ Release("exit")
            /\ UNCHANGED first
    /\ UNCHANGED <<codec, i, srcs, conns, last, hist>>

\* lines 333-344; a panic of the parse unwinds the handler, which runs its
\* deferred calls before the process ends
ParseFirst ==
    /\ pc = "parse"
    /\ LET p == parseUDPHeader(first.buf, TRUE)
       IN  IF p.kind = "panic"
           THEN Release("panic") /\ UNCHANGED first
           ELSE IF p.kind = "err"
           THEN Release("exit") /\ UNCHANGED first
           ELSE /\ first' = [first EXCEPT !.dst = p.addr]
                /\ pc' = IF maxConns = 0 THEN "supervise" ELSE "loop"
                /\ UNCHANGED <<relay, client>>
    /\ i' = 0
    /\ UNCHANGED <<codec, srcs, conns, last, hist>>

\* lines 347-358: the member the loop creates at index k
Member(k) ==
    NewConn(first.src, first.dst,
            IF k = 0 THEN SomeBuf(Slice(first.buf, first.dst.size, first.n)) ELSE NilBuf)

\* proxy.DialUpstream(c, ...), which is not part of udp.go; up: it returns a
\* tunnel.  A dial that fails calls Close on the connection it was given.
DialUpstream(c, up) ==
    IF up THEN [conn |-> "up", c |-> c, closes |-> FALSE]
    ELSE [conn |-> "failed", c |-> Close(c), closes |-> TRUE]

\* one turn of the loop of lines 346-364
DialStopsAtFailure(up) ==
    /\ pc = "loop"
    /\ i < maxConns
    /\ srcs' = [srcs EXCEPT ![i] = DialUpstream(Member(i), up).c]
    /\ conns' = [conns EXCEPT ![i] = DialUpstream(Member(i), up).conn]
    /\ relay' = [relay EXCEPT !.closed = @ \/ DialUpstream(Member(i), up).closes]
    /\ hist' = [hist EXCEPT !.dials[i] = @ + 1]
    /\ i' = i + 1
    /\ pc' = IF up /\ i + 1 < maxConns THEN "loop" ELSE "supervise"
    /\ UNCHANGED <<codec, client, first, last>>
Dial(up) ==
    /\ pc = "loop"
    /\ i < maxConns
    /\ srcs' = [srcs EXCEPT ![i] = DialUpstream(Member(i), up).c]
    /\ conns' = [conns EXCEPT ![i] = DialUpstream(Member(i), up).conn]
    /\ relay' = [relay EXCEPT !.closed = @ \/ DialUpstream(Member(i), up).closes]
    /\ hist' = [hist EXCEPT !.dials[i] = @ + 1]
    /\ i' = i + 1
    /\ pc' = IF i + 1 < maxConns THEN "loop" ELSE "supervise"
    /\ UNCHANGED <<codec, client, first, last>>

DialUpstreamOk == Dial(TRUE)
DialUpstreamFails == Dial(FALSE)

\* lines 367-377: the count of the closed members
AllClosed == \A k \in Members : srcs[k].closed

\* lines 367-383: the poll that finds every member closed, and the return; a
\* poll that finds an open member changes nothing
Supervise ==
    /\ pc = "supervise"
    /\ AllClosed
    /\ Release("done")
    /\ UNCHANGED <<codec, i, first, srcs, conns, last, hist>>

---------------------------------------------------------------------------
(* The calls the tunnel of member k makes on srcs[k] *)

Running(k) ==
    /\ pc \in {"loop", "supervise", "done"}
    /\ conns[k] = "up"

\* what ReadFrom can return: an error once the socket is closed; before, an
\* error, or a datagram from the sender of the first one, or one from
\* another sender
ReadResults ==
    IF relay.closed THEN {ReadFailed}
    ELSE {ReadFailed} \cup {Received(d, "peerA") : d \in Datagrams}
            \cup {Received(Hdr4(<<0, 0>>, IP4, 53) \o <<81, 82>>, a) : a \in Senders}

\* how many WriteTo calls the socket accepts: none once it is closed
OkCounts == IF relay.closed THEN {0} ELSE {0, 1, MaxFed}

DoRead(k, lenb, rf) ==
    LET r == Read(srcs[k], lenb, rf)
    IN  /\ srcs' = [srcs EXCEPT ![k] = r.c]
        /\ pc' = IF r.panic THEN "panic" ELSE pc
        /\ last' = [NoCall EXCEPT !.op = "Read", !.k = k, !.pre = srcs[k],
                       !.lenb = lenb, !.rf = IF r.sock THEN rf ELSE ReadFailed,
                       !.n = r.n, !.err = r.err, !.sock = r.sock, !.panic = r.panic,
                       !.buf = IF r.err = "nil" THEN BufSlice(r.b, 0, Min(r.n, lenb)) ELSE <<>>]
        /\ hist' = [hist EXCEPT !.ops = @ + 1,
                       !.reads[k] = IF Undersized(lenb) THEN @ ELSE @ + 1,
                       !.sockReads[k] = IF r.sock THEN @ + 1 ELSE @]
        /\ UNCHANGED <<codec, i, relay, client, first, conns>>

DoWriteShared(k, b, okCount, counted) ==
    LET r == Write(srcs[k], b, okCount)
    IN  /\ srcs' = [j \in Members |->
                        [srcs[j] EXCEPT !.waitingMore = r.c.waitingMore,
                                        !.incompleteLen = r.c.incompleteLen]]
        /\ pc' = IF r.panic THEN "panic" ELSE pc
        /\ relay' = [relay EXCEPT !.out = @ \o r.out]
        /\ last' = [NoCall EXCEPT !.op = "Write", !.k = k, !.pre = srcs[k],
                       !.chunk = b, !.n = r.n, !.err = r.err, !.panic = r.panic,
                       !.out = r.out, !.emits = r.emits]
        /\ hist' = [hist EXCEPT !.ops = @ + counted,
                       !.fed[k] = @ \o b,
                       !.emits[k] = @ \o r.emits,
                       !.clean[k] = @ /\ r.err = "nil" /\ srcs[k].udpSrc # "nil"]
        /\ UNCHANGED <<codec, i, client, first, conns>>
DoWrite(k, b, okCount, counted) ==
    LET r == Write(srcs[k], b, okCount)
    IN  /\ srcs' = [srcs EXCEPT ![k] = r.c]
        /\ pc' = IF r.panic THEN "panic" ELSE pc
        /\ relay' = [relay EXCEPT !.out = @ \o r.out]
        /\ last' = [NoCall EXCEPT !.op = "Write", !.k = k, !.pre = srcs[k],
                       !.chunk = b, !.n = r.n, !.err = r.err, !.panic = r.panic,
                       !.out = r.out, !.emits = r.emits]
        /\ hist' = [hist EXCEPT !.ops = @ + counted,
                       !.fed[k] = @ \o b,
                       !.emits[k] = @ \o r.emits,
                       !.clean[k] = @ /\ r.err = "nil" /\ srcs[k].udpSrc # "nil"]
        /\ UNCHANGED <<codec, i, client, first, conns>>

MemberRead(k, lenb, rf) ==
    /\ Running(k)
    /\ hist.ops < MaxOps
    /\ DoRead(k, lenb, rf)

MemberWrite(k, b, okCount) ==
    /\ Running(k)
    /\ hist.ops < MaxOps
    /\ DoWrite(k, b, okCount, 1)

\* udpBridgeConn.Close, lines 310-313
MemberClose(k) ==
    /\ Running(k)
    /\ hist.ops < MaxOps
    /\ srcs' = [srcs EXCEPT ![k] = Close(srcs[k])]
    /\ relay' = [relay EXCEPT !.closed = TRUE]
    /\ last' = [NoCall EXCEPT !.op = "Close", !.k = k, !.pre = srcs[k], !.err = "nil"]
    /\ hist' = [hist EXCEPT !.ops = @ + 1]
    /\ UNCHANGED <<codec, pc, i, client, first, conns>>

Next ==
    \/ SendReply
    \/ \E rf \in {ReadFailed} \cup {Received(d, "peerA") : d \in FirstDatagrams} : ReadFirst(rf)
    \/ ParseFirst
    \/ DialUpstreamOk
    \/ DialUpstreamFails
    \/ Supervise
    \/ \E k \in Members, lenb \in ReadBufLens, rf \in ReadResults : MemberRead(k, lenb, rf)
    \/ \E k \in Members, b \in PoolChunks, okCount \in OkCounts : MemberWrite(k, b, okCount)
    \/ \E k \in Members : MemberClose(k)

\* the relay pool
Spec == Init /\ [][Next]_vars

\* the relay pool, when the handler's goroutine is scheduled and the calls
\* it makes return; the wait for the first datagram may last forever
Progress ==
    /\ WF_vars(SendReply)
    /\ WF_vars(ParseFirst)
    /\ WF_vars(DialUpstreamOk \/ DialUpstreamFails)
    /\ WF_vars(Supervise)
LiveSpec == Init /\ [][Next]_vars /\ Progress

---------------------------------------------------------------------------
(* The framing of one connection: member 0 of a pool whose dials all       *)
(* succeeded, fed the tunnel stream in chunks                              *)

FramingInit ==
    /\ codec = CodecIdle
    /\ \E d \in FirstDatagrams : \E a \in {"peerA"} :
         LET p == parseUDPHeader(d, TRUE)
             seed == SomeBuf(Slice(d, p.addr.size, Len(d)))
         IN  /\ p.kind = "ok"
             /\ first = [n |-> Len(d), buf |-> d, src |-> a, dst |-> p.addr]
             /\ srcs = [k \in Members |->
                            NewConn(a, p.addr, IF k = 0 THEN seed ELSE NilBuf)]
    /\ pc = "supervise"
    /\ i = maxConns
    /\ relay = [closed |-> FALSE, port |-> 4660, out |-> <<>>]
    /\ client = [closed |-> FALSE, out |-> <<PutUint16(AsBuf(okSOCKS), 8, 4660).data>>]
    /\ conns = [k \in Members |-> "up"]
    /\ last = NoCall
    /\ hist = [NoHist EXCEPT !.dials = [k \in Members |-> 1]]

Feed(b, okCount) ==
    /\ Running(0)
    /\ last.err \in {"none", "nil"}      \* the tunnel stops at a failed Write
    /\ Len(hist.fed[0]) + Len(b) <= MaxFed
    /\ DoWrite(0, b, okCount, 0)

FramingNext == \E b \in Chunks, okCount \in OkCounts : Feed(b, okCount)

FramingSpec == FramingInit /\ [][FramingNext]_vars

---------------------------------------------------------------------------
(* The framing of the whole pool: the tunnels of the members feed their    *)
(* streams in any order, one Write call at a time, and the socket accepts  *)
(* every datagram                                                          *)

\* the chunks of the interleaving specification: one or two bytes of a
\* stream of frames of 0 and 1 bytes
ShareChunks == {t \in Chunks : Len(t) \in 1..2 /\ \A j \in 1..Len(t) : t[j] \in {0, 1}}

ShareInit ==
    /\ FramingInit
    /\ first.buf = Hdr4(<<0, 0>>, IP4, 53) \o <<80, 73>>

RECURSIVE FedUpTo(_)
FedUpTo(k) == IF k < 0 THEN 0 ELSE Len(hist.fed[k]) + FedUpTo(k - 1)

Share(k, b) ==
    /\ Running(k)
    /\ FedUpTo(maxConns - 1) + Len(b) <= MaxShare
    /\ DoWrite(k, b, MaxShare, 0)

ShareNext == \E k \in Members, b \in ShareChunks : Share(k, b)

ShareSpec == ShareInit /\ [][ShareNext]_vars

---------------------------------------------------------------------------
(* Read on the members of a pool in SOCKS mode and of a pool in raw mode,  *)
(* with datagrams up to the size of the caller's buffer and beyond         *)

\* what ReadFrom returns there: small datagrams, and datagrams of 2048
\* bytes and more, with and without a SOCKS5 header
ReadArrivals ==
    { ReadFailed,
      Received(<<7>>, "peerA"),
      Received(Hdr4(<<0, 0>>, IP4, 53) \o <<81, 82>>, "peerA"),
      ReceivedPadded(Hdr4(<<0, 0>>, IP4, 53) \o <<81>>, expectedMaxPacketSize - 11, "peerA"),
      ReceivedPadded(<<7, 8>>, expectedMaxPacketSize - 4, "peerA"),
      ReceivedPadded(<<7, 8>>, expectedMaxPacketSize - 3, "peerA"),
      ReceivedPadded(<<7, 8>>, expectedMaxPacketSize - 1, "peerA") }

\* the lengths of the buffers that meet the precondition of Read
ReadFitLens == {expectedMaxPacketSize, 2 * expectedMaxPacketSize}

ReadInit ==
    /\ codec = CodecIdle
    /\ LET d == Hdr4(<<0, 0>>, IP4, 53) \o <<80, 73>>
           p == parseUDPHeader(d, TRUE)
       IN  /\ first = [n |-> Len(d), buf |-> d, src |-> "peerA", dst |-> p.addr]
           /\ \E socks \in BOOLEAN :
                 srcs = [k \in Members |->
                            IF socks
                            THEN NewConn("peerA", p.addr,
                                         IF k = 0 THEN SomeBuf(Slice(d, p.addr.size, Len(d)))
                                                  ELSE NilBuf)
                            ELSE RawConn("peerA", p.addr)]
    /\ pc = "supervise"
    /\ i = maxConns
    /\ relay = [closed |-> FALSE, port |-> 4660, out |-> <<>>]
    /\ client = [closed |-> FALSE, out |-> <<PutUint16(AsBuf(okSOCKS), 8, 4660).data>>]
    /\ conns = [k \in Members |-> "up"]
    /\ last = NoCall
    /\ hist = [NoHist EXCEPT !.dials = [k \in Members |-> 1]]

ReadNext ==
    \E k \in Members, lenb \in ReadFitLens, rf \in ReadArrivals : MemberRead(k, lenb, rf)

ReadSpec == ReadInit /\ [][ReadNext]_vars

---------------------------------------------------------------------------
(* The codec on static buffers: parse, build a datagram for the parsed     *)
(* address (the header building alone, and the whole of write on a         *)
(* connection that learned peerA), parse that                              *)

CodecInit ==
    /\ codec \in {[CodecIdle EXCEPT !.phase = "input", !.buf = x] : x \in CodecBuffers}
    /\ PoolInit

CodecParse(omitCheck) ==
    /\ codec.phase \in {"input", "built"}
    /\ codec.phase = "built" => ~codec.d.panic
    /\ codec' = [codec EXCEPT !.phase = IF @ = "input" THEN "parsed" ELSE "reparsed",
                                !.omit = omitCheck,
                                !.res = parseUDPHeader(codec.buf, omitCheck)]
    /\ UNCHANGED poolVars

CodecBuild(b) ==
    /\ codec.phase = "parsed"
    /\ codec.res.kind = "ok"
    /\ codec' = [codec EXCEPT !.phase = "built",
                                !.dst = codec.res.addr,
                                !.b = b,
                                !.d = BuildDatagram(codec.res.addr, b),
                                !.w = write(NewConn("peerA", codec.res.addr, NilBuf), b, TRUE),
                                !.buf = BuildDatagram(codec.res.addr, b).data]
    /\ UNCHANGED poolVars

CodecNext ==
    \/ \E omitCheck \in BOOLEAN : CodecParse(omitCheck)
    \/ \E b \in CodecPayloads : CodecBuild(b)

CodecSpec == CodecInit /\ [][CodecNext]_vars

---------------------------------------------------------------------------
(* Properties of the codec, under CodecSpec *)

Parsed == codec.phase \in {"parsed", "reparsed"}

\* C8, as stated: for an IPv4 address, an IPv6 address and a domain name of
\* 1..255 bytes, with any port, the header building of write yields a
\* header, and parsing what it built with the version check skipped gives
\* the same ip, host and port and a size equal to the header bytes built.
C8_RoundTrip ==
    LET inFamily == Len(codec.dst.ip) \in {4, 16} \/ Len(codec.dst.host) \in 1..255
    IN  /\ (codec.phase = "built" /\ inFamily) => ~codec.d.panic
        /\ (codec.phase = "reparsed" /\ codec.omit /\ inFamily) =>
                /\ codec.res.kind = "ok"
                /\ codec.res.addr.ip = codec.dst.ip
                /\ codec.res.addr.host = codec.dst.host
                /\ codec.res.addr.port = codec.dst.port
                /\ codec.res.addr.size = codec.d.ln

\* What does hold of the round trip: only a domain name of 250..255 bytes
\* makes the build panic, and every header that is built parses back to the
\* address it was built from.
RoundTripWhenBuilt ==
    /\ (codec.phase = "built" /\ codec.d.panic) => Len(codec.dst.host) \in 250..255
    /\ (codec.phase = "reparsed" /\ codec.omit
            /\ (Len(codec.dst.ip) \in {4, 16} \/ Len(codec.dst.host) \in 1..255)) =>
            /\ codec.res.kind = "ok"
            /\ codec.res.addr.ip = codec.dst.ip
            /\ codec.res.addr.host = codec.dst.host
            /\ codec.res.addr.port = codec.dst.port
            /\ codec.res.addr.size = codec.d.ln

\* C9, as stated: a successful parse records header size 9 for IPv4, 21 for
\* IPv6 and 5 + (length byte) + 2 for a domain, and the port is the
\* big-endian value of the last two bytes of a header of that size.
C9_AsStated ==
    (Parsed /\ codec.res.kind = "ok") =>
        LET t == codec.buf[4]
            size == IF t = 1 THEN 9 ELSE IF t = 4 THEN 21 ELSE 5 + codec.buf[5] + 2
        IN  /\ codec.res.addr.size = size
            /\ codec.res.addr.port = codec.buf[size - 1] * 256 + codec.buf[size]

\* C9, amended: a successful parse records header size 10 for IPv4, 22 for
\* IPv6 and 5 + (length byte) + 2 for a domain, and the port is the
\* big-endian value of the last two bytes of a header of that size.
C9_HeaderSize ==
    (Parsed /\ codec.res.kind = "ok") =>
        LET t == codec.buf[4]
            size == IF t = 1 THEN 10 ELSE IF t = 4 THEN 22 ELSE 5 + codec.buf[5] + 2
        IN  /\ t \in {1, 3, 4}
            /\ codec.res.addr.size = size
            /\ codec.res.addr.port = codec.buf[size - 1] * 256 + codec.buf[size]

\* C9's case: the three address types parse, here IPv6 with the largest port
C9_Witness ==
    /\ codec.phase = "parsed"
    /\ codec.res.kind = "ok"
    /\ codec.buf[4] = 4
    /\ codec.res.addr.size = 22
    /\ codec.res.addr.port = 65535

\* C10: with the version check on, a buffer whose byte 0 is not 5 or whose
\* byte 1 is neither 1 nor 3 makes the parse fail with an error and no
\* address; with the check on or off, a byte 3 that is none of 1, 3, 4 does
\* the same; with the check off, replacing bytes 0 and 1 changes neither
\* the outcome nor the parsed address.
C10_Rejects ==
    Parsed =>
        /\ (~codec.omit /\ Len(codec.buf) >= 2
                /\ (codec.buf[1] # 5 \/ codec.buf[2] \notin {1, 3})) =>
                (codec.res.kind = "err" /\ codec.res.addr = NilAddr)
        /\ (Len(codec.buf) >= 4 /\ codec.buf[4] \notin {1, 3, 4}
                /\ (codec.omit \/ (codec.buf[1] = 5 /\ codec.buf[2] \in {1, 3}))) =>
                (codec.res.kind = "err" /\ codec.res.err = "invalid address type"
                    /\ codec.res.addr = NilAddr)
        /\ (codec.omit /\ Len(codec.buf) >= 2) =>
                \A v \in {0, 4, 5, 255}, m \in {0, 1, 2, 3} :
                    LET other == parseUDPHeader(
                                    <<v, m>> \o SubSeq(codec.buf, 3, Len(codec.buf)), TRUE)
                    IN  other.kind = codec.res.kind /\ other.addr = codec.res.addr

\* C10's case: version 5 with command 2 is refused when the check is on
C10_Witness ==
    /\ codec.phase = "parsed"
    /\ ~codec.omit
    /\ Len(codec.buf) >= 10
    /\ codec.buf[1] = 5 /\ codec.buf[2] = 2 /\ codec.buf[4] = 1
    /\ codec.res.kind = "err"

\* the version check is skipped or passes
VersionAccepted ==
    codec.omit \/ (Len(codec.buf) >= 2 /\ codec.buf[1] = 5 /\ codec.buf[2] \in {1, 3})

\* buf holds the address-type byte, and the length byte of a domain, but
\* fewer bytes than the header it declares
ShortOfDeclared(buf) ==
    /\ Len(buf) >= 4
    /\ \/ buf[4] = 1 /\ Len(buf) < 10
       \/ buf[4] = 4 /\ Len(buf) < 22
       \/ buf[4] = 3 /\ Len(buf) >= 5 /\ Len(buf) < 7 + buf[5]

\* buf is too short to hold the address-type byte, or the length byte of a
\* domain
ShortOfType(buf) ==
    \/ Len(buf) < 4
    \/ Len(buf) = 4 /\ buf[4] = 3

\* C11, as stated: on a static buffer, every buffer that holds fewer bytes
\* than the header it declares, the buffers too short for the address-type
\* byte or the domain length byte included, makes the parse return the
\* short-buffer error; the parse never aborts.
C11_ShortBuffer ==
    (Parsed /\ VersionAccepted
        /\ (ShortOfType(codec.buf) \/ ShortOfDeclared(codec.buf))) =>
        (codec.res.kind = "err" /\ codec.res.err = "EOF" /\ codec.res.addr = NilAddr)

\* What does hold of short buffers: one that holds the address-type byte
\* (and the length byte of a domain) gets the short-buffer error, a shorter
\* one makes the parse panic.
ShortBufferWhenTyped ==
    (Parsed /\ VersionAccepted) =>
        /\ ShortOfDeclared(codec.buf) => (codec.res.kind = "err" /\ codec.res.err = "EOF")
        /\ ShortOfType(codec.buf) => codec.res.kind = "panic"

\* the SOCKS5 UDP header for a destination
HeaderFor(dst) ==
    IF dst.host # <<>>
    THEN <<0, 0, 0, 3, Len(dst.host)>> \o dst.host \o <<dst.port \div 256, dst.port % 256>>
    ELSE <<0, 0, 0, IF Len(dst.ip) = 4 THEN 1 ELSE 4>> \o dst.ip
            \o <<dst.port \div 256, dst.port % 256>>

Emitted == codec.phase \in {"built", "reparsed"}

\* C15, as stated: in SOCKS mode with a learned peer, for a domain name of
\* 1..255 bytes, an IPv4 and an IPv6 destination and every payload, write
\* does not abort and sends to the peer exactly one datagram, the header
\* for the destination followed by the payload.
C15_Emit ==
    (Emitted /\ (Len(codec.dst.ip) \in {4, 16} \/ Len(codec.dst.host) \in 1..255)) =>
        /\ ~codec.w.panic
        /\ codec.w.err = "nil"
        /\ codec.w.out = <<[to |-> "peerA", data |-> HeaderFor(codec.dst) \o codec.b]>>

\* What does hold of write: the same for a domain name of at most 249
\* bytes, an IPv4 and an IPv6 destination; a domain name of 250..255 bytes
\* makes it panic, whatever the payload.
EmitUnlessLongDomain ==
    Emitted =>
        /\ (Len(codec.dst.ip) \in {4, 16} \/ Len(codec.dst.host) \in 1..249) =>
              /\ ~codec.w.panic
              /\ codec.w.err = "nil"
              /\ codec.w.out = <<[to |-> "peerA", data |-> HeaderFor(codec.dst) \o codec.b]>>
        /\ Len(codec.dst.host) \in 250..255 => codec.w.panic

---------------------------------------------------------------------------
(* Properties of the framing, under FramingSpec *)

\* the payloads of the complete frames of a byte string, in order
RECURSIVE Frames(_)
Frames(t) ==
    IF Len(t) < 2 THEN <<>>
    ELSE LET ln == t[1] * 256 + t[2]
         IN  IF Len(t) < 2 + ln THEN <<>>
             ELSE <<SubSeq(t, 3, 2 + ln)>> \o Frames(SubSeq(t, 3 + ln, Len(t)))

\* C1, as stated: a Write that returns no error returns the length of the
\* chunk it was given, in every reassembly state.
C1_WriteCount ==
    (last.op = "Write" /\ last.err = "nil") => last.n = Len(last.chunk)

\* C2: while no Write has failed, the payloads handed to the emit step are
\* the payloads of the complete frames of the bytes fed so far, in order,
\* each once, however the bytes were cut into chunks; they are what one
\* Write of all the bytes emits on a fresh connection; and each went out
\* whole, as the tail of one datagram to the learned peer.
C2_Reassembly ==
    hist.clean[0] =>
        /\ hist.emits[0] = Frames(hist.fed[0])
        /\ hist.emits[0] = Write(Member(0), hist.fed[0], Len(hist.fed[0]) + 1).emits
        /\ Len(relay.out) = Len(hist.emits[0])
        /\ \A j \in 1..Len(relay.out) :
              LET d == relay.out[j].data
                  p == hist.emits[0][j]
              IN  /\ relay.out[j].to = first.src
                  /\ Len(d) >= Len(p)
                  /\ SubSeq(d, Len(d) - Len(p) + 1, Len(d)) = p

\* C2's case: two frames, the last byte of the second delivered alone
C2_Witness ==
    /\ hist.clean[0]
    /\ hist.fed[0] = <<0, 1, 3, 0, 1, 1>>
    /\ Len(last.chunk) = 1
    /\ last.pre.waitingMore.remain = 1
    /\ hist.emits[0] = << <<3>>, <<1>> >>

\* the chunk of the last Write, given in Idle, is one complete frame and
\* then rest, a proper non-empty prefix of a second frame
Surplus(rest) ==
    /\ last.op = "Write" /\ last.err = "nil"
    /\ ~last.pre.incompleteLen /\ last.pre.waitingMore.remain <= 0
    /\ Len(last.chunk) >= 2
    /\ Len(last.chunk) > 2 + last.chunk[1] * 256 + last.chunk[2]
    /\ rest = SubSeq(last.chunk, 3 + last.chunk[1] * 256 + last.chunk[2], Len(last.chunk))
    /\ \/ Len(rest) = 1
       \/ Len(rest) >= 2 /\ Len(rest) - 2 < rest[1] * 256 + rest[2]

FirstFrame == SubSeq(last.chunk, 3, 2 + last.chunk[1] * 256 + last.chunk[2])

\* C4, as stated: such a Write emits exactly the first frame and leaves the
\* writer in AwaitingPayload, remain being the second frame's declared
\* length minus its payload bytes received.
C4_AsStated ==
    \A rest \in Chunks :
        Surplus(rest) =>
            /\ last.emits = <<FirstFrame>>
            /\ ~srcs[0].incompleteLen
            /\ srcs[0].waitingMore.remain > 0
            /\ Len(rest) >= 2 =>
                  srcs[0].waitingMore.remain = rest[1] * 256 + rest[2] - (Len(rest) - 2)

\* C4, amended: such a Write emits exactly the first frame; if rest holds
\* both length bytes it leaves the writer in AwaitingPayload, remain being
\* the declared length minus the payload bytes received, which are kept; if
\* rest is a single byte it leaves the writer in AwaitingSecondLengthByte,
\* holding that byte, with no outstanding byte count.
C4_Surplus ==
    \A rest \in Chunks :
        Surplus(rest) =>
            /\ last.emits = <<FirstFrame>>
            /\ Len(rest) >= 2 =>
                  /\ ~srcs[0].incompleteLen
                  /\ srcs[0].waitingMore.remain = rest[1] * 256 + rest[2] - (Len(rest) - 2)
                  /\ srcs[0].waitingMore.remain > 0
                  /\ srcs[0].waitingMore.buf = SubSeq(rest, 3, Len(rest))
            /\ Len(rest) = 1 =>
                  /\ srcs[0].incompleteLen
                  /\ srcs[0].waitingMore.buf = rest
                  /\ srcs[0].waitingMore.remain <= 0

\* C4's case: an empty frame, then the length and one of the three payload
\* bytes of the next
C4_Witness ==
    /\ last.op = "Write" /\ last.err = "nil"
    /\ ~last.pre.incompleteLen /\ last.pre.waitingMore.remain <= 0
    /\ last.chunk = <<0, 0, 0, 3, 1>>
    /\ last.emits = << <<>> >>
    /\ srcs[0].waitingMore = [buf |-> <<1>>, remain |-> 2]

\* the bytes of a stream that follow its last complete frame
RECURSIVE Unfinished(_)
Unfinished(t) ==
    IF Len(t) < 2 THEN t
    ELSE LET ln == t[1] * 256 + t[2]
         IN  IF Len(t) < 2 + ln THEN t
             ELSE Unfinished(SubSeq(t, 3 + ln, Len(t)))

\* C20: after any sequence of Write calls the connection is not awaiting
\* the second length byte and payload bytes at once, and whenever remain is
\* positive the payload bytes buffered and remain add up to the declared
\* length of the frame that the stream fed so far has begun.
C20_Exclusive ==
    LET c == srcs[0]
        u == Unfinished(hist.fed[0])
    IN  /\ ~(c.incompleteLen /\ c.waitingMore.remain > 0)
        /\ c.waitingMore.remain > 0 =>
              /\ Len(u) >= 2
              /\ Len(c.waitingMore.buf) + c.waitingMore.remain = u[1] * 256 + u[2]
              /\ c.waitingMore.buf = SubSeq(u, 3, Len(u))

\* C20's case: a Write in AwaitingSecondLengthByte that brings the second
\* length byte and one of three payload bytes
C20_Witness ==
    /\ last.op = "Write"
    /\ last.pre.incompleteLen
    /\ last.chunk = <<3, 1>>
    /\ hist.fed[0] = <<0, 3, 1>>
    /\ ~srcs[0].incompleteLen
    /\ srcs[0].waitingMore = [buf |-> <<1>>, remain |-> 2]

---------------------------------------------------------------------------
(* Properties of the pool, under Spec and LiveSpec *)

\* the size of the SOCKS5 header a datagram starts with, or 0 if it starts
\* with none
HeaderLen(d) ==
    IF Len(d) < 4 THEN 0
    ELSE IF d[4] = 1 /\ Len(d) >= 10 THEN 10
    ELSE IF d[4] = 4 /\ Len(d) >= 22 THEN 22
    ELSE IF d[4] = 3 /\ Len(d) >= 5 /\ Len(d) >= 7 + d[5] THEN 7 + d[5]
    ELSE 0

\* a frame: the 2-byte big-endian length, then the payload
Frame(p) == <<Len(p) \div 256, Len(p) % 256>> \o p

\* the bytes of the first datagram after its header
Seed == SubSeq(first.buf, HeaderLen(first.buf) + 1, first.n)

AllDialsFailed == i = maxConns /\ \A k \in Members : conns[k] = "failed"

C5_SocksStrip ==
    (last.op = "Read" /\ last.sock /\ last.rf.ok /\ last.pre.socks
        /\ last.pre.initBuf.nil /\ HeaderLen(last.rf.data) > 0) =>
        LET P == SubSeq(last.rf.data, HeaderLen(last.rf.data) + 1, Len(last.rf.data))
        IN  /\ ~last.panic /\ last.err = "nil"
            /\ last.n = Len(P) + 2
            /\ last.buf = Frame(P)

\* C5's case: an IPv4 header followed by two bytes
C5_Witness ==
    /\ last.op = "Read" /\ last.sock /\ last.pre.initBuf.nil
    /\ last.rf.data = <<0, 0, 0, 1, 1, 2, 3, 4, 0, 53, 81, 82>>
    /\ last.buf = <<0, 2, 81, 82>>
    /\ last.n = 4

\* C6: no member but member 0 ever has a seed; member 0 is created with
\* the bytes of the first datagram after its header as its seed; its first
\* Read returns the frame of the seed and does not read the socket; from
\* then on it has no seed, and each of its later Reads reads the socket.
C6_Seed ==
    /\ \A k \in Members : (k # 0 /\ srcs[k] # NilConn) => srcs[k].initBuf.nil
    /\ srcs[0] # NilConn =>
          /\ hist.reads[0] = 0 => srcs[0].initBuf = SomeBuf(Seed)
          /\ hist.reads[0] > 0 =>
                (srcs[0].initBuf.nil /\ hist.sockReads[0] = hist.reads[0] - 1)
    /\ (last.op = "Read" /\ last.k = 0 /\ ~Undersized(last.lenb)) =>
          IF hist.reads[0] = 1
          THEN /\ ~last.sock /\ last.err = "nil"
               /\ last.n = Len(Seed) + 2
               /\ last.buf = Frame(Seed)
          ELSE last.sock

\* C6's case: member 0 has read twice, the seed and then the socket
C6_Witness ==
    /\ hist.reads[0] = 2 /\ hist.sockReads[0] = 1
    /\ Seed = <<80, 73>>
    /\ last.op = "Read" /\ last.k = 0 /\ last.sock /\ last.err = "nil"

\* C7: a Read with a buffer of fewer than 2050 bytes panics and has done
\* nothing before: the socket is not read, and the connection, its pending
\* seed and its learned peer address included, is as it was.
C7_Undersized ==
    (last.op = "Read" /\ last.lenb < 2050) =>
        /\ last.panic /\ pc = "panic"
        /\ ~last.sock
        /\ srcs[last.k] = last.pre
        /\ srcs[last.k].initBuf = last.pre.initBuf
        /\ srcs[last.k].udpSrc = last.pre.udpSrc

\* C7's case: 2049 bytes, with the seed pending
C7_Witness ==
    /\ last.op = "Read" /\ last.lenb = 2049
    /\ ~last.pre.initBuf.nil
    /\ last.panic

\* the last call was a Write that completed a frame on a member with no
\* learned peer address
EarlyWrite ==
    /\ last.op = "Write" /\ ~last.panic
    /\ last.pre.socks /\ last.pre.udpSrc = "nil"
    /\ last.emits # <<>>

\* the same Write on the same connection with a learned peer and a socket
\* that accepts every datagram
WithPeer == Write([last.pre EXCEPT !.udpSrc = "peerA"], last.chunk, MaxFed)

\* C12, as stated: such a Write sends no datagram and returns no error, it
\* reports the whole chunk as accepted, and it leaves the reassembly state
\* as the same Write with a learned peer leaves it.
C12_SilentDrop ==
    EarlyWrite =>
        /\ last.out = <<>>
        /\ last.err = "nil"
        /\ last.n = Len(last.chunk)
        /\ srcs[last.k].waitingMore = WithPeer.c.waitingMore
        /\ srcs[last.k].incompleteLen = WithPeer.c.incompleteLen
        /\ last.emits = WithPeer.emits

\* What does hold of such a Write: all of the above but the count, which is
\* the count the same Write reports when the frame is sent.
SilentDropButCount ==
    EarlyWrite =>
        /\ last.out = <<>>
        /\ last.err = "nil"
        /\ last.n = WithPeer.n
        /\ srcs[last.k].waitingMore = WithPeer.c.waitingMore
        /\ srcs[last.k].incompleteLen = WithPeer.c.incompleteLen
        /\ last.emits = WithPeer.emits

\* every dial has returned a tunnel
AllUp == i = maxConns /\ \A k \in Members : conns[k] = "up"

\* C13, as stated: while a member of the pool is still open the shared
\* socket and the control connection are open; no Close of a member closes
\* the socket.
C13_ReleasedLast ==
    (AllUp /\ ~AllClosed) => (~relay.closed /\ ~client.closed)

\* What does hold: the handler itself releases the socket and the control
\* connection only once every member reports closed, and the control
\* connection stays open until then; the socket is closed as soon as one
\* member is closed.
ReleasedByHandlerLast ==
    AllUp =>
        /\ pc = "done" => AllClosed
        /\ ~AllClosed => ~client.closed
        /\ (\E k \in Members : srcs[k].closed) => relay.closed

\* C14, as stated: every member that exists has the peer address and the
\* destination of the first datagram, whatever Read, Write and Close calls
\* were made since.
C14_SessionFixed ==
    \A k \in Members :
        srcs[k] # NilConn =>
            (srcs[k].udpSrc = first.src /\ srcs[k].dst = first.dst)

\* What does hold: the destination of a member never changes, and its peer
\* address is changed by nothing but a Read of that member that reads the
\* socket, which sets it to the sender of the datagram, or to nil if the
\* read fails.
SessionFixedButPeer ==
    /\ \A k \in Members : srcs[k] # NilConn => srcs[k].dst = first.dst
    /\ \A k \in Members :
          (srcs[k] # NilConn /\ hist.sockReads[k] = 0) => srcs[k].udpSrc = first.src
    /\ (last.op = "Read" /\ last.sock) => srcs[last.k].udpSrc = last.rf.addr

\* the UDP-ASSOCIATE success reply: okSOCKS with the port of the socket in
\* bytes 8 and 9
Reply == <<5, 0, 0, 1, 0, 0, 0, 0, relay.port \div 256, relay.port % 256>>

\* the handler ended without a destination: the first read failed, or the
\* parse of the first datagram failed or panicked
Aborted == pc \in {"exit", "panic"} /\ first.dst = NilAddr

\* C16: the reply is on the control connection before the first datagram
\* is read; if the first read fails or the header of the first datagram
\* does not parse, no member is created, no tunnel is dialed, and the socket
\* and the control connection are both released; members exist only for a
\* first datagram that starts with a whole header.
C16_AbortsAtStart ==
    /\ pc = "start" => (first.n = 0 /\ first.src = "nil" /\ client.out = <<>>)
    /\ pc # "start" => client.out = <<Reply>>
    /\ Aborted =>
          /\ \A k \in Members :
                srcs[k] = NilConn /\ conns[k] = "nil" /\ hist.dials[k] = 0
          /\ relay.closed /\ client.closed
    /\ (pc = "exit" \/ HeaderLen(first.buf) = 0) =>
          \A k \in Members : srcs[k] = NilConn /\ hist.dials[k] = 0
    /\ (pc \notin {"start", "await", "parse"} /\ HeaderLen(first.buf) = 0) => Aborted

\* C16's case: a first datagram with an unknown address type
C16_Witness ==
    /\ pc = "exit"
    /\ first.buf = <<0, 0, 0, 9, 1, 2, 3, 4, 0, 53>>
    /\ client.out = <<Reply>>
    /\ relay.closed /\ client.closed

\* the first datagram was parsed: the loop of line 346 has been entered
Started == first.dst # NilAddr

\* C17: the members below the loop index have each been created and
\* dialed once, whatever the dials returned, the others not yet; the loop
\* goes on until the index reaches N, after a failed dial as after a
\* successful one, and the supervision starts only then.
C17_DialedOnce ==
    /\ \A k \in Members :
          IF Started /\ k < i
          THEN hist.dials[k] = 1 /\ srcs[k] # NilConn /\ conns[k] \in {"up", "failed"}
          ELSE hist.dials[k] = 0 /\ srcs[k] = NilConn /\ conns[k] = "nil"
    /\ (Started /\ i < maxConns /\ pc # "panic") => pc = "loop"
    /\ pc \in {"supervise", "done"} => i = maxConns

\* C17's case: the first dial failed, the last one succeeded
C17_Witness ==
    /\ i = maxConns
    /\ conns[0] = "failed" /\ conns[maxConns - 1] = "up"
    /\ \A k \in Members : hist.dials[k] = 1

---------------------------------------------------------------------------
(* Properties of the framing of the whole pool, under ShareSpec *)

\* what a connection is waiting for
Pending(c) ==
    IF c.incompleteLen THEN <<"length", c.waitingMore.buf>>
    ELSE IF c.waitingMore.remain > 0
    THEN <<"payload", c.waitingMore.buf, c.waitingMore.remain>>
    ELSE <<"idle">>

\* member k alone, given the bytes fed to it so far
Alone(k) == Write(Member(k), hist.fed[k], MaxShare)

\* C18: a Write on one member leaves every other member as it was, and
\* after any interleaving each member has emitted the payloads, and waits
\* for the bytes, that it emits and waits for when it processes its own
\* stream alone.
C18_Private ==
    /\ [][\A j \in Members : srcs'[j] # srcs[j] => (last'.op = "Write" /\ last'.k = j)]_vars
    /\ [](\A k \in Members :
            /\ hist.emits[k] = Alone(k).emits
            /\ hist.emits[k] = Frames(hist.fed[k])
            /\ Pending(srcs[k]) = Pending(Alone(k).c))

\* C18's case: member 0 completes a frame that it began before member 1
\* began one of its own, which is still pending
C18_Witness ==
    /\ last.op = "Write" /\ last.k = 0
    /\ last.pre.waitingMore.remain = 1
    /\ last.emits = << <<1>> >>
    /\ hist.fed[0] = <<0, 1, 1>>
    /\ hist.fed[maxConns - 1] = <<0, 1>>
    /\ Pending(srcs[maxConns - 1]) = <<"payload", <<>>, 1>>

---------------------------------------------------------------------------
(* Properties of Read, under ReadSpec *)

\* the last call was a Read that returned no error
ReadDone == last.op = "Read" /\ ~last.panic /\ last.err = "nil"

\* the payload that Read is to frame: the seed; in SOCKS mode the bytes
\* received after the header; in raw mode the bytes received
ReadPayload ==
    LET all == last.rf.data \o [k \in 1..last.rf.pad |-> 0]
        got == SubSeq(all, 1, Min(Len(all), last.lenb))
    IN  IF ~last.sock THEN last.pre.initBuf.data
        ELSE IF last.pre.socks THEN SubSeq(got, HeaderLen(got) + 1, Len(got))
        ELSE got

\* C19, as stated: in SOCKS mode and in raw mode, a Read that returns no
\* error returns a count of at most the length of the caller's buffer, and
\* the length prefix it writes is the count minus 2, the number of payload
\* bytes that follow the prefix.
C19_Count ==
    ReadDone =>
        /\ last.n <= last.lenb
        /\ Len(last.buf) = last.n
        /\ last.buf[1] * 256 + last.buf[2] = last.n - 2
        /\ SubSeq(last.buf, 3, last.n) = ReadPayload

\* What does hold of Read: the same in SOCKS mode, and in raw mode for a
\* datagram that leaves 2 bytes of the buffer free.
CountWhenItFits ==
    (ReadDone /\ (last.pre.socks \/ Len(last.rf.data) + last.rf.pad <= last.lenb - 2)) =>
        /\ last.n <= last.lenb
        /\ Len(last.buf) = last.n
        /\ last.buf[1] * 256 + last.buf[2] = last.n - 2
        /\ SubSeq(last.buf, 3, last.n) = ReadPayload

===========================================================================
